---------------------------- MODULE Spec2Model ----------------------------
(***************************************************************************)
(* Ace Bank: the BankAccount ledger core and the BankingApp account set    *)
(* of chandrakalapradhan_02240114_A3_PA.py.                                *)
(*                                                                         *)
(* Spec      the ledger core used serially: the BankAccount methods are    *)
(*           called on the accounts of a ledger with arbitrary amounts and *)
(*           targets (as chandrakalapradhan_02240114_A3_test.py does).     *)
(* AppSpec   BankingApp: accounts are opened, logged into, used and closed *)
(*           through its handlers.                                         *)
(* ConcSpec  the same BankAccount methods run by several callers at once,  *)
(*           one statement-level step at a time (the code takes no lock).  *)
(* LedgerSpec the account set behind BankingApp, without the dialogs:      *)
(*           accounts are made (number generation included) and deleted.   *)
(* Amounts are whole currency units, as in the unit tests.                 *)
(***************************************************************************)
EXTENDS Integers, Sequences, FiniteSets, TLC

VARIABLES
    accounts,   \* BankingApp.accounts: account_number -> BankAccount
    current,    \* BankingApp.current: account_number of the logged-in account, or None
    buttons,    \* state of the five account buttons
    last,       \* the last call made and what it raised
    applied,    \* per account, the calls that succeeded on it, in invocation order
    thr         \* ConcSpec: each caller's position in the method it runs

vars == <<accounts, current, buttons, last, applied, thr>>

---------------------------------------------------------------------------
(* Bounds of the model *)

MaxBal == 2     \* deposits and credits are explored while the balance stays <= MaxBal
MaxHist == 2    \* calls are explored while the ledger holds fewer than MaxHist records

None == "None"

\* names typed into the Open Account dialog ("" is an empty or cancelled dialog)
Names == {"Alice", "Bob"}
NameInputs == Names \cup {""}

\* str(random.randint(10000, 99999)): the numbers generate_account_number draws
\* from, cut down to as many as there are names
AccNums == {"12345", "54321"}
AccNumInputs == AccNums \cup {"99999"}

\* passcodes as typed, character by character
Digits == {"0", "1", "2", "3", "4", "5", "6", "7", "8", "9"}
GoodPasscode == <<"1", "2", "3", "4">>
OtherPasscode == <<"5", "6", "7", "8">>
\* what is typed when an account is opened, and what is typed at a login (the
\* same, and another owner's well-formed passcode)
OpenPasscodes == {GoodPasscode, <<"1", "2", "3">>, <<"1", "2", "3", "x">>, <<>>}
PasscodeInputs == OpenPasscodes \cup {OtherPasscode}

\* amounts passed to the methods: negative, zero, and two positive ones
Amounts == {-1, 0, 1, 2}

\* balances accounts are opened with
OpenBalances == {0, 1}
MobileNumbers == {"17123456"}

ButtonNames == {"deposit_btn", "withdraw_btn", "transfer_btn", "topup_btn", "delete_btn"}

---------------------------------------------------------------------------
(* BankAccount *)

\* BankAccount.__init__
BankAccount(account_number, name, passcode, balance) ==
    [account_number |-> account_number, name |-> name, passcode |-> passcode,
     balance |-> balance, transactions |-> <<>>]

\* The f-strings appended to transactions, piece by piece.
DepositedRec(amount) == <<"Deposited Nu.", amount>>
WithdrewRec(amount) == <<"Withdrew Nu.", amount>>
SentRec(amount, target) ==
    <<"Sent Nu.", amount, " to ", target.name, " (", target.account_number, ")">>
ReceivedRec(amount, self) ==
    <<"Received Nu.", amount, " from ", self.name, " (", self.account_number, ")">>
TopupRec(amount, number) == <<"Mobile top-up Nu.", amount, " to ", number>>

\* What a method call leaves behind: the accounts and the exception it raised.
Outcome(accts, raised) == [accounts |-> accts, raised |-> raised]

\* Faulty variants of the methods, each with one slip
\* deposit whose guard is amount < 0
deposit_zero_accepted(accts, self, amount) ==
    IF amount < 0 THEN Outcome(accts, "InvalidAmountError")
    ELSE Outcome([accts EXCEPT ![self].balance = @ + amount,
                               ![self].transactions = Append(@, DepositedRec(amount))],
                 None)

\* deposit that puts its record at the head of the list
deposit_record_first(accts, self, amount) ==
    IF amount <= 0 THEN Outcome(accts, "InvalidAmountError")
    ELSE Outcome([accts EXCEPT ![self].balance = @ + amount,
                               ![self].transactions = <<DepositedRec(amount)>> \o @],
                 None)

\* deposit that records the new balance instead of the amount
deposit_records_balance(accts, self, amount) ==
    IF amount <= 0 THEN Outcome(accts, "InvalidAmountError")
    ELSE Outcome([accts EXCEPT ![self].balance = @ + amount,
                               ![self].transactions =
                                   Append(@, DepositedRec(accts[self].balance + amount))],
                 None)

\* withdraw without the balance test
withdraw_unchecked(accts, self, amount) ==
    IF amount <= 0 THEN Outcome(accts, "InvalidAmountError")
    ELSE Outcome([accts EXCEPT ![self].balance = @ - amount,
                               ![self].transactions = Append(@, WithdrewRec(amount))],
                 None)

\* withdraw whose balance test is amount >= balance
withdraw_all_refused(accts, self, amount) ==
    IF amount <= 0 THEN Outcome(accts, "InvalidAmountError")
    ELSE IF amount >= accts[self].balance THEN Outcome(accts, "InsufficientFundsError")
    ELSE Outcome([accts EXCEPT ![self].balance = @ - amount,
                               ![self].transactions = Append(@, WithdrewRec(amount))],
                 None)

\* transfer that names the sender in both records
transfer_names_sender(accts, self, amount, target) ==
    IF amount <= 0 THEN Outcome(accts, "InvalidAmountError")
    ELSE IF amount > accts[self].balance THEN Outcome(accts, "InsufficientFundsError")
    ELSE IF target = self THEN Outcome(accts, "InvalidAmountError")
    ELSE LET a1 == [accts EXCEPT ![self].balance = @ - amount]
             a2 == [a1 EXCEPT ![target].balance = @ + amount]
             a3 == [a2 EXCEPT ![self].transactions = Append(@, SentRec(amount, a2[self]))]
             a4 == [a3 EXCEPT ![target].transactions =
                                  Append(@, ReceivedRec(amount, a3[self]))]
         IN Outcome(a4, None)

\* mobile_topup without the balance test
mobile_topup_unchecked(accts, self, amount, number) ==
    IF amount <= 0 THEN Outcome(accts, "InvalidAmountError")
    ELSE Outcome([accts EXCEPT ![self].balance = @ - amount,
                               ![self].transactions = Append(@, TopupRec(amount, number))],
                 None)

\* a faulty deposit: the account is built anew, without its passcode
deposit_rebuilds_account(accts, self, amount) ==
    IF amount <= 0 THEN Outcome(accts, "InvalidAmountError")
    ELSE Outcome([accts EXCEPT ![self] =
                     [BankAccount(@.account_number, @.name, <<>>, @.balance + amount)
                        EXCEPT !.transactions =
                                 Append(accts[self].transactions, DepositedRec(amount))]],
                 None)

\* BankAccount.deposit, called on accts[self]
deposit(accts, self, amount) ==
    IF amount <= 0 THEN Outcome(accts, "InvalidAmountError")
    ELSE Outcome([accts EXCEPT ![self].balance = @ + amount,
                               ![self].transactions = Append(@, DepositedRec(amount))],
                 None)

\* BankAccount.withdraw
withdraw(accts, self, amount) ==
    IF amount <= 0 THEN Outcome(accts, "InvalidAmountError")
    ELSE IF amount > accts[self].balance THEN Outcome(accts, "InsufficientFundsError")
    ELSE Outcome([accts EXCEPT ![self].balance = @ - amount,
                               ![self].transactions = Append(@, WithdrewRec(amount))],
                 None)

\* BankAccount.transfer; the four updates run in the order of the code, so a
\* target that is self would be debited and then credited.
transfer(accts, self, amount, target) ==
    IF amount <= 0 THEN Outcome(accts, "InvalidAmountError")
    ELSE IF amount > accts[self].balance THEN Outcome(accts, "InsufficientFundsError")
    ELSE IF target = self THEN Outcome(accts, "InvalidAmountError")
    ELSE LET a1 == [accts EXCEPT ![self].balance = @ - amount]
             a2 == [a1 EXCEPT ![target].balance = @ + amount]
             a3 == [a2 EXCEPT ![self].transactions = Append(@, SentRec(amount, a2[target]))]
             a4 == [a3 EXCEPT ![target].transactions =
                                  Append(@, ReceivedRec(amount, a3[self]))]
         IN Outcome(a4, None)

\* BankAccount.mobile_topup
mobile_topup(accts, self, amount, number) ==
    IF amount <= 0 THEN Outcome(accts, "InvalidAmountError")
    ELSE IF amount > accts[self].balance THEN Outcome(accts, "InsufficientFundsError")
    ELSE Outcome([accts EXCEPT ![self].balance = @ - amount,
                               ![self].transactions = Append(@, TopupRec(amount, number))],
                 None)

\* a faulty get_transactions: the newest record comes first
get_transactions_newest_first(accts, self) ==
    [accounts |-> accts, raised |-> None,
     returned |-> [i \in 1 .. Len(accts[self].transactions) |->
                     accts[self].transactions[Len(accts[self].transactions) + 1 - i]]]

\* BankAccount.get_transactions: the accounts it leaves, the exception it raises
\* and the list it returns
get_transactions(accts, self) ==
    [accounts |-> accts, raised |-> None, returned |-> accts[self].transactions]

---------------------------------------------------------------------------
(* What the specifications share *)

\* The last call: the method, its amount, whether its target was the account
\* itself, and the exception it raised (None: it returned); arg is the account
\* number typed into the Login dialog or the name typed into the Open Account
\* dialog, and returned the list a read handed back.
Call(op, amount, same, raised) ==
    [op |-> op, amount |-> amount, same |-> same, raised |-> raised,
     arg |-> None, returned |-> <<>>]

\* every account number a ledger of the model may hold
AllNums == AccNums \cup {"10000"}

\* number of records the ledger holds
Records(accts) ==
    LET cnt(n) == IF n \in DOMAIN accts THEN Len(accts[n].transactions) ELSE 0
    IN cnt("12345") + cnt("54321") + cnt("10000")

\* the model follows a call only while its result stays within the bounds
InBounds(accts) ==
    /\ \A n \in DOMAIN accts : accts[n].balance <= MaxBal
    /\ Records(accts) <= MaxHist

Disabled == [b \in ButtonNames |-> "disabled"]
Normal == [b \in ButtonNames |-> "normal"]

\* applied, after a call on self (and on target, for a transfer) that raised nothing
Applied(raised, self, entry) ==
    IF raised = None THEN [applied EXCEPT ![self] = Append(@, entry)] ELSE applied

---------------------------------------------------------------------------
(* Spec: the ledger core, called serially *)

\* A ledger of three accounts; the first two are those of the unit tests, opened
\* with balances the Open Account dialog accepts (askfloat with minvalue=0), and
\* the third is opened with the default balance of BankAccount, 0.
Ledger(b1, b2, b3) ==
    ("12345" :> BankAccount("12345", "Alice", GoodPasscode, b1))
    @@ ("54321" :> BankAccount("54321", "Bob", GoodPasscode, b2))
    @@ ("10000" :> BankAccount("10000", "Carol", GoodPasscode, b3))

Init ==
    /\ \E b1 \in OpenBalances, b2 \in OpenBalances : accounts = Ledger(b1, b2, 0)
    /\ current = None
    /\ buttons = Disabled
    /\ last = Call("init", 0, FALSE, None)
    /\ applied = [n \in AllNums |-> <<>>]
    /\ thr = << >>

\* a caller runs accounts[self].deposit(amount)
Deposit(self, amount) ==
    LET r == deposit(accounts, self, amount)
    IN /\ last' = Call("deposit", amount, FALSE, r.raised)
       /\ InBounds(r.accounts)
       /\ accounts' = r.accounts
       /\ applied' = Applied(r.raised, self, <<"deposit", amount>>)
       /\ UNCHANGED <<current, buttons, thr>>

\* a caller runs accounts[self].withdraw(amount)
Withdraw(self, amount) ==
    LET r == withdraw(accounts, self, amount)
    IN /\ last' = Call("withdraw", amount, FALSE, r.raised)
       /\ InBounds(r.accounts)
       /\ accounts' = r.accounts
       /\ applied' = Applied(r.raised, self, <<"withdraw", amount>>)
       /\ UNCHANGED <<current, buttons, thr>>

\* a caller runs accounts[self].transfer(amount, accounts[target])
Transfer(self, amount, target) ==
    LET r == transfer(accounts, self, amount, target)
    IN /\ last' = Call("transfer", amount, target = self, r.raised)
       /\ InBounds(r.accounts)
       /\ accounts' = r.accounts
       /\ applied' = IF r.raised = None
                     THEN [applied EXCEPT
                             ![self] = Append(@, <<"transfer to", amount, target>>),
                             ![target] = Append(@, <<"transfer from", amount, self>>)]
                     ELSE applied
       /\ UNCHANGED <<current, buttons, thr>>

\* a caller runs accounts[self].mobile_topup(amount, number)
MobileTopup(self, amount, number) ==
    LET r == mobile_topup(accounts, self, amount, number)
    IN /\ last' = Call("mobile_topup", amount, FALSE, r.raised)
       /\ InBounds(r.accounts)
       /\ accounts' = r.accounts
       /\ applied' = Applied(r.raised, self, <<"mobile_topup", amount, number>>)
       /\ UNCHANGED <<current, buttons, thr>>

\* a caller runs accounts[self].get_transactions()
GetTransactions(self) ==
    LET r == get_transactions(accounts, self)
    IN /\ last' = [Call("get_transactions", 0, FALSE, r.raised)
                      EXCEPT !.returned = r.returned]
       /\ accounts' = r.accounts
       /\ UNCHANGED <<current, buttons, applied, thr>>

Next ==
    \/ \E self \in DOMAIN accounts, amount \in Amounts : Deposit(self, amount)
    \/ \E self \in DOMAIN accounts, amount \in Amounts : Withdraw(self, amount)
    \/ \E self \in DOMAIN accounts, amount \in Amounts, target \in DOMAIN accounts :
          Transfer(self, amount, target)
    \/ \E self \in DOMAIN accounts, amount \in Amounts, number \in MobileNumbers :
          MobileTopup(self, amount, number)
    \/ \E self \in DOMAIN accounts : GetTransactions(self)

Spec == Init /\ [][Next]_vars

---------------------------------------------------------------------------
(* AppSpec: BankingApp, driven through its handlers *)

\* amounts the amount dialogs return: askfloat(minvalue=0.01) gives a positive
\* number (here one unit, which is more than an empty account holds), and a
\* closed dialog gives nothing (cancelled)
DialogAmounts == {1}

\* BankingApp.__init__
AppInit ==
    /\ accounts = << >>
    /\ current = None
    /\ buttons = Disabled
    /\ last = Call("init", 0, FALSE, None)
    /\ applied = [n \in AllNums |-> <<>>]
    /\ thr = << >>

\* str.isdigit() and the length test of open_account
ValidPasscode(passcode) ==
    /\ passcode # <<>>
    /\ \A i \in 1 .. Len(passcode) : passcode[i] \in Digits
    /\ Len(passcode) >= 4

\* a faulty generate_account_number: the number drawn is returned untested
generate_account_number_untested(accts) == AccNums

\* BankingApp.generate_account_number: the numbers its loop can return
generate_account_number(accts) == AccNums \ DOMAIN accts

\* the call of open_account in which name was typed
Opened(name, bal, raised) ==
    [Call("open_account", bal, FALSE, raised) EXCEPT !.arg = name]

\* a faulty open_account: the name is not looked for among the accounts
open_account_any_name(name, passcode, bal, cancelled) ==
    /\ UNCHANGED <<current, buttons, applied, thr>>
    /\ IF name = ""
       THEN /\ accounts' = accounts
            /\ last' = Opened(name, 0, "no name")
       ELSE IF ~ValidPasscode(passcode)
       THEN /\ accounts' = accounts
            /\ last' = Opened(name, 0,
                            "Invalid passcode. Must be at least 4 digits.")
       ELSE IF cancelled
       THEN /\ accounts' = accounts
            /\ last' = Opened(name, 0, "no balance")
       ELSE \E acc_num \in generate_account_number(accounts) :
               /\ accounts' = (acc_num :> BankAccount(acc_num, name, passcode, bal))
                                @@ accounts
               /\ last' = Opened(name, bal, None)

\* BankingApp.open_account; bal is what askfloat(minvalue=0) returned, and
\* cancelled says that it returned None
open_account(name, passcode, bal, cancelled) ==
    /\ UNCHANGED <<current, buttons, applied, thr>>
    /\ IF name = ""
       THEN /\ accounts' = accounts
            /\ last' = Opened(name, 0, "no name")
       ELSE IF \E n \in DOMAIN accounts : accounts[n].name = name
       THEN /\ accounts' = accounts
            /\ last' = Opened(name, 0, "Account with this name already exists")
       ELSE IF ~ValidPasscode(passcode)
       THEN /\ accounts' = accounts
            /\ last' = Opened(name, 0,
                            "Invalid passcode. Must be at least 4 digits.")
       ELSE IF cancelled
       THEN /\ accounts' = accounts
            /\ last' = Opened(name, 0, "no balance")
       ELSE \E acc_num \in generate_account_number(accounts) :
               /\ accounts' = (acc_num :> BankAccount(acc_num, name, passcode, bal))
                                @@ accounts
               /\ last' = Opened(name, bal, None)

\* a faulty login: the passcode typed is not compared
login_unchecked(acc_num, passcode) ==
    /\ UNCHANGED <<accounts, applied, thr>>
    /\ IF DOMAIN accounts = {}
       THEN /\ UNCHANGED <<current, buttons>>
            /\ last' = Call("login", 0, FALSE, "No accounts yet")
       ELSE IF acc_num \notin DOMAIN accounts
       THEN /\ UNCHANGED <<current, buttons>>
            /\ last' = [Call("login", 0, FALSE, "Account not found") EXCEPT !.arg = acc_num]
       ELSE /\ current' = acc_num
            /\ buttons' = Normal
            /\ last' = [Call("login", 0, FALSE, None) EXCEPT !.arg = acc_num]

\* BankingApp.login
login(acc_num, passcode) ==
    /\ UNCHANGED <<accounts, applied, thr>>
    /\ IF DOMAIN accounts = {}
       THEN /\ UNCHANGED <<current, buttons>>
            /\ last' = Call("login", 0, FALSE, "No accounts yet")
       ELSE IF acc_num \notin DOMAIN accounts
       THEN /\ UNCHANGED <<current, buttons>>
            /\ last' = [Call("login", 0, FALSE, "Account not found") EXCEPT !.arg = acc_num]
       ELSE IF passcode # accounts[acc_num].passcode
       THEN /\ UNCHANGED <<current, buttons>>
            /\ last' = [Call("login", 0, FALSE, "Incorrect passcode") EXCEPT !.arg = acc_num]
       ELSE /\ current' = acc_num
            /\ buttons' = Normal
            /\ last' = [Call("login", 0, FALSE, None) EXCEPT !.arg = acc_num]

\* a faulty logout: the buttons are left as they are
logout_keeps_buttons ==
    /\ current' = None
    /\ last' = Call("logout", 0, FALSE, None)
    /\ UNCHANGED <<accounts, buttons, applied, thr>>

\* BankingApp.logout
logout ==
    /\ current' = None
    /\ buttons' = Disabled
    /\ last' = Call("logout", 0, FALSE, None)
    /\ UNCHANGED <<accounts, applied, thr>>

\* a faulty close_account: the account is deleted and the session is kept
close_account_keeps_session(confirm) ==
    /\ buttons["delete_btn"] = "normal"
    /\ UNCHANGED <<applied, thr>>
    /\ IF current # None /\ confirm
       THEN /\ accounts' = [n \in DOMAIN accounts \ {current} |-> accounts[n]]
            /\ UNCHANGED <<current, buttons>>
            /\ last' = Call("close_account", 0, FALSE, None)
       ELSE /\ UNCHANGED <<accounts, current, buttons>>
            /\ last' = Call("close_account", 0, FALSE, "not confirmed")

\* BankingApp.close_account, behind the Close Account button
close_account(confirm) ==
    /\ buttons["delete_btn"] = "normal"
    /\ UNCHANGED <<applied, thr>>
    /\ IF current # None /\ confirm
       THEN /\ accounts' = [n \in DOMAIN accounts \ {current} |-> accounts[n]]
            /\ current' = None
            /\ buttons' = Disabled
            /\ last' = Call("close_account", 0, FALSE, None)
       ELSE /\ UNCHANGED <<accounts, current, buttons>>
            /\ last' = Call("close_account", 0, FALSE, "not confirmed")

\* what a handler's try block does with a method of self.current: with no
\* current account the attribute lookup raises, and accounts stay as they are
OnCurrent(r) ==
    IF current = None THEN Outcome(accounts, "AttributeError") ELSE r

\* BankingApp.deposit, behind the Deposit button
app_deposit(amt, cancelled) ==
    /\ buttons["deposit_btn"] = "normal"
    /\ UNCHANGED <<current, buttons, applied, thr>>
    /\ IF cancelled
       THEN /\ accounts' = accounts
            /\ last' = Call("BankingApp.deposit", 0, FALSE, "no amount")
       ELSE LET r == OnCurrent(deposit(accounts, current, amt))
            IN /\ InBounds(r.accounts)
               /\ accounts' = r.accounts
               /\ last' = Call("BankingApp.deposit", amt, FALSE, r.raised)

\* BankingApp.withdraw, behind the Withdraw button
app_withdraw(amt, cancelled) ==
    /\ buttons["withdraw_btn"] = "normal"
    /\ UNCHANGED <<current, buttons, applied, thr>>
    /\ IF cancelled
       THEN /\ accounts' = accounts
            /\ last' = Call("BankingApp.withdraw", 0, FALSE, "no amount")
       ELSE LET r == OnCurrent(withdraw(accounts, current, amt))
            IN /\ InBounds(r.accounts)
               /\ accounts' = r.accounts
               /\ last' = Call("BankingApp.withdraw", amt, FALSE, r.raised)

\* BankingApp.transfer, behind the Send Money button
app_transfer(target_acc_num, amt, cancelled) ==
    /\ buttons["transfer_btn"] = "normal"
    /\ UNCHANGED <<current, buttons, applied, thr>>
    /\ IF Cardinality(DOMAIN accounts) < 2
       THEN /\ accounts' = accounts
            /\ last' = Call("BankingApp.transfer", 0, FALSE, "Need at least 2 accounts")
       ELSE IF target_acc_num # "" /\ target_acc_num \in DOMAIN accounts /\ current = None
       THEN /\ accounts' = accounts
            /\ last' = Call("BankingApp.transfer", 0, FALSE, "AttributeError")
       ELSE IF ~(/\ target_acc_num # ""
                 /\ target_acc_num \in DOMAIN accounts
                 /\ target_acc_num # accounts[current].account_number)
       THEN /\ accounts' = accounts
            /\ last' = Call("BankingApp.transfer", 0, FALSE,
                            "Invalid recipient account number")
       ELSE IF cancelled
       THEN /\ accounts' = accounts
            /\ last' = Call("BankingApp.transfer", 0, FALSE, "no amount")
       ELSE LET r == transfer(accounts, current, amt, target_acc_num)
            IN /\ InBounds(r.accounts)
               /\ accounts' = r.accounts
               /\ last' = Call("BankingApp.transfer", amt, FALSE, r.raised)

\* BankingApp.mobile_topup, behind the Mobile Top-Up button
app_mobile_topup(number, amt, cancelled) ==
    /\ buttons["topup_btn"] = "normal"
    /\ UNCHANGED <<current, buttons, applied, thr>>
    /\ IF number = "" \/ cancelled
       THEN /\ accounts' = accounts
            /\ last' = Call("BankingApp.mobile_topup", 0, FALSE, "no amount")
       ELSE LET r == OnCurrent(mobile_topup(accounts, current, amt, number))
            IN /\ InBounds(r.accounts)
               /\ accounts' = r.accounts
               /\ last' = Call("BankingApp.mobile_topup", amt, FALSE, r.raised)

AppNext ==
    \/ \E name \in NameInputs, passcode \in OpenPasscodes,
          bal \in OpenBalances, cancelled \in BOOLEAN :
          open_account(name, passcode, bal, cancelled)
    \/ \E acc_num \in AccNumInputs, passcode \in PasscodeInputs : login(acc_num, passcode)
    \/ logout
    \/ \E confirm \in BOOLEAN : close_account(confirm)
    \/ \E amt \in DialogAmounts, cancelled \in BOOLEAN : app_deposit(amt, cancelled)
    \/ \E amt \in DialogAmounts, cancelled \in BOOLEAN : app_withdraw(amt, cancelled)
    \/ \E target_acc_num \in AccNumInputs \cup {""}, amt \in DialogAmounts,
          cancelled \in BOOLEAN : app_transfer(target_acc_num, amt, cancelled)
    \/ \E number \in MobileNumbers \cup {""}, amt \in DialogAmounts,
          cancelled \in BOOLEAN : app_mobile_topup(number, amt, cancelled)

AppSpec == AppInit /\ [][AppNext]_vars

---------------------------------------------------------------------------
(* ConcSpec: the BankAccount methods run by two callers at once.  The code   *)
(* takes no lock, so a caller may be overtaken between any two accesses to   *)
(* an account: each step below is one read or one write of a balance, or one *)
(* append, in the order the statements make them.                            *)

Callers == {"t1", "t2"}

Idle == [pc |-> "idle", op |-> None, self |-> None, amount |-> 0, target |-> None,
         tmp |-> 0, raised |-> None]

\* every account is opened with balance 1
ConcInit ==
    /\ accounts = Ledger(1, 1, 1)
    /\ current = None
    /\ buttons = Disabled
    /\ last = Call("init", 0, FALSE, None)
    /\ applied = [n \in AllNums |-> <<>>]
    /\ thr = [t \in Callers |-> Idle]

At(t, op, pc) == thr[t].op = op /\ thr[t].pc = pc

Goto(t, pc) == thr' = [thr EXCEPT ![t].pc = pc]

Raise(t, exc) == thr' = [thr EXCEPT ![t].pc = "done", ![t].raised = exc]

Frame == UNCHANGED <<current, buttons, last, applied>>

\* a caller enters a method; the test of the amount (lines 50, 66, 85) reads
\* no account
Enter(t, op, self, amount, target) ==
    /\ thr[t].pc = "idle"
    /\ IF op # "get_transactions" /\ amount <= 0
       THEN thr' = [thr EXCEPT ![t] = [Idle EXCEPT !.pc = "done", !.op = op,
                       !.self = self, !.amount = amount, !.target = target,
                       !.raised = "InvalidAmountError"]]
       ELSE thr' = [thr EXCEPT ![t] = [Idle EXCEPT !.pc = "entered", !.op = op,
                       !.self = self, !.amount = amount, !.target = target]]
    /\ UNCHANGED accounts /\ Frame

\* get_transactions, line 122: the caller is handed the list
ReadTransactions(t) ==
    /\ At(t, "get_transactions", "entered")
    /\ thr' = [thr EXCEPT ![t].pc = "done",
                          ![t].tmp = Len(accounts[thr[t].self].transactions)]
    /\ UNCHANGED accounts /\ Frame

\* deposit, line 52: self.balance += amount reads the balance ...
DepositRead(t) ==
    /\ At(t, "deposit", "entered")
    /\ thr' = [thr EXCEPT ![t].pc = "read", ![t].tmp = accounts[thr[t].self].balance]
    /\ UNCHANGED accounts /\ Frame

\* ... and then stores the sum
DepositWrite(t) ==
    /\ At(t, "deposit", "read")
    /\ accounts' = [accounts EXCEPT ![thr[t].self].balance = thr[t].tmp + thr[t].amount]
    /\ Goto(t, "written") /\ Frame

\* deposit, line 53
DepositAppend(t) ==
    /\ At(t, "deposit", "written")
    /\ accounts' = [accounts EXCEPT ![thr[t].self].transactions =
                                       Append(@, DepositedRec(thr[t].amount))]
    /\ Goto(t, "done") /\ Frame

\* withdraw, line 68, and transfer, line 87: the balance test
BalanceTest(t) ==
    /\ At(t, "withdraw", "entered") \/ At(t, "transfer", "entered")
    /\ IF thr[t].amount > accounts[thr[t].self].balance
       THEN Raise(t, "InsufficientFundsError")
       ELSE Goto(t, "tested")
    /\ UNCHANGED accounts /\ Frame

\* transfer, line 89
SelfTest(t) ==
    /\ At(t, "transfer", "tested")
    /\ IF thr[t].target = thr[t].self
       THEN Raise(t, "InvalidAmountError")
       ELSE Goto(t, "checked")
    /\ UNCHANGED accounts /\ Frame

\* withdraw, line 70, and transfer, line 91: self.balance -= amount reads ...
DebitRead(t) ==
    /\ At(t, "withdraw", "tested") \/ At(t, "transfer", "checked")
    /\ thr' = [thr EXCEPT ![t].pc = "read", ![t].tmp = accounts[thr[t].self].balance]
    /\ UNCHANGED accounts /\ Frame

\* ... and then stores the difference
DebitWrite(t) ==
    /\ At(t, "withdraw", "read") \/ At(t, "transfer", "read")
    /\ accounts' = [accounts EXCEPT ![thr[t].self].balance = thr[t].tmp - thr[t].amount]
    /\ Goto(t, "debited") /\ Frame

\* withdraw, line 71
WithdrawAppend(t) ==
    /\ At(t, "withdraw", "debited")
    /\ accounts' = [accounts EXCEPT ![thr[t].self].transactions =
                                       Append(@, WithdrewRec(thr[t].amount))]
    /\ Goto(t, "done") /\ Frame

\* transfer, line 92: target.balance += amount reads ...
CreditRead(t) ==
    /\ At(t, "transfer", "debited")
    /\ thr' = [thr EXCEPT ![t].pc = "read target",
                          ![t].tmp = accounts[thr[t].target].balance]
    /\ UNCHANGED accounts /\ Frame

\* ... and then stores the sum
CreditWrite(t) ==
    /\ At(t, "transfer", "read target")
    /\ accounts' = [accounts EXCEPT ![thr[t].target].balance = thr[t].tmp + thr[t].amount]
    /\ Goto(t, "credited") /\ Frame

\* transfer, line 93
SentAppend(t) ==
    /\ At(t, "transfer", "credited")
    /\ accounts' = [accounts EXCEPT ![thr[t].self].transactions =
                       Append(@, SentRec(thr[t].amount, accounts[thr[t].target]))]
    /\ Goto(t, "sent") /\ Frame

\* transfer, line 94
ReceivedAppend(t) ==
    /\ At(t, "transfer", "sent")
    /\ accounts' = [accounts EXCEPT ![thr[t].target].transactions =
                       Append(@, ReceivedRec(thr[t].amount, accounts[thr[t].self]))]
    /\ Goto(t, "done") /\ Frame

ConcNext ==
    \E t \in Callers :
       \/ \E op \in {"deposit", "withdraw", "transfer", "get_transactions"},
             self \in DOMAIN accounts, amount \in Amounts, target \in DOMAIN accounts :
             /\ op # "transfer" => target = self
             /\ op = "get_transactions" => amount = 0
             /\ Enter(t, op, self, amount, target)
       \/ ReadTransactions(t)
       \/ DepositRead(t) \/ DepositWrite(t) \/ DepositAppend(t)
       \/ BalanceTest(t) \/ SelfTest(t)
       \/ DebitRead(t) \/ DebitWrite(t) \/ WithdrawAppend(t)
       \/ CreditRead(t) \/ CreditWrite(t) \/ SentAppend(t) \/ ReceivedAppend(t)

ConcSpec == ConcInit /\ [][ConcNext]_vars

---------------------------------------------------------------------------
(* LedgerSpec: the account set as open_account and close_account keep it,    *)
(* called without the dialogs in front of them: an account is made by        *)
(* generate_account_number and BankAccount(...) and stored under its number, *)
(* and deleted by its number.  generate_account_number is followed one turn  *)
(* of its loop at a time.                                                    *)

\* the owner names and the opening balances a caller may pass to BankAccount(...)
LedgerNames == Names \cup {"Carol"}
LedgerBalances == {-1, 0, 1}

\* thr while no account is being made
NoRequest == << >>

LedgerInit ==
    /\ accounts = << >>
    /\ current = None
    /\ buttons = Disabled
    /\ last = Call("init", 0, FALSE, None)
    /\ applied = [n \in AllNums |-> <<>>]
    /\ thr = NoRequest

\* open_account from "acc_num = self.generate_account_number()" on: the loop of
\* generate_account_number is entered with the account's fields at hand
CreateAccount(name, passcode, balance) ==
    /\ thr = NoRequest
    /\ thr' = [name |-> name, passcode |-> passcode, balance |-> balance]
    /\ UNCHANGED <<accounts, current, buttons, last, applied>>

\* one turn of the loop of generate_account_number: acc_num is drawn; if it is
\* not in use it is returned, and open_account stores
\* BankAccount(acc_num, name, passcode, bal) under it; if it is in use the loop
\* turns again
GenerateAccountNumber(acc_num) ==
    /\ thr # NoRequest
    /\ UNCHANGED <<current, buttons, applied>>
    /\ IF acc_num \notin DOMAIN accounts
       THEN /\ accounts' = (acc_num :> BankAccount(acc_num, thr.name, thr.passcode,
                                                   thr.balance)) @@ accounts
            /\ thr' = NoRequest
            /\ last' = Call("CreateAccount", thr.balance, FALSE, None)
       ELSE UNCHANGED <<accounts, thr, last>>

\* del self.accounts[acc_num]
RemoveAccount(acc_num) ==
    /\ thr = NoRequest
    /\ acc_num \in DOMAIN accounts
    /\ accounts' = [n \in DOMAIN accounts \ {acc_num} |-> accounts[n]]
    /\ last' = Call("RemoveAccount", 0, FALSE, None)
    /\ UNCHANGED <<current, buttons, applied, thr>>

LedgerNext ==
    \/ \E name \in LedgerNames, balance \in LedgerBalances :
          CreateAccount(name, GoodPasscode, balance)
    \/ \E acc_num \in AccNums : GenerateAccountNumber(acc_num)
    \/ \E acc_num \in AccNums : RemoveAccount(acc_num)

LedgerSpec == LedgerInit /\ [][LedgerNext]_vars

---------------------------------------------------------------------------
(* Properties of the ledger core (Spec) *)

Last(seq) == seq[Len(seq)]

IsPrefix(s, t) == Len(s) <= Len(t) /\ SubSeq(t, 1, Len(s)) = s

\* every account but those in S is left as it was, and no account comes or goes
OthersUnchanged(S) ==
    /\ DOMAIN accounts' = DOMAIN accounts
    /\ \A n \in DOMAIN accounts \ S : accounts'[n] = accounts[n]

\* identity fields of account n are left as they were
SameIdentity(n) ==
    /\ accounts'[n].account_number = accounts[n].account_number
    /\ accounts'[n].name = accounts[n].name
    /\ accounts'[n].passcode = accounts[n].passcode

\* the step is a call of method op with this amount (a cheap test that the
\* action formulas below imply, put before them)
Called(op, amount) == last'.op = op /\ last'.amount = amount

\* C2: a transfer between two distinct accounts that raises nothing debits the
\* sender by the amount, credits the recipient by the amount (so the sum of the
\* two balances is kept), appends one "Sent ... to <recipient name> (<recipient
\* number>)" record to the sender and one "Received ... from <sender name>
\* (<sender number>)" record to the recipient, and changes no third account.
C2_TransferConserves ==
    [][\A self \in DOMAIN accounts, target \in DOMAIN accounts, amount \in Amounts :
         (self # target /\ Called("transfer", amount) /\ last'.raised = None
            /\ Transfer(self, amount, target)) =>
            /\ accounts'[self].balance = accounts[self].balance - amount
            /\ accounts'[target].balance = accounts[target].balance + amount
            /\ accounts'[self].balance + accounts'[target].balance
                 = accounts[self].balance + accounts[target].balance
            /\ accounts'[self].transactions =
                 Append(accounts[self].transactions,
                        <<"Sent Nu.", amount, " to ", accounts[target].name,
                          " (", target, ")">>)
            /\ accounts'[target].transactions =
                 Append(accounts[target].transactions,
                        <<"Received Nu.", amount, " from ", accounts[self].name,
                          " (", self, ")">>)
            /\ SameIdentity(self) /\ SameIdentity(target)
            /\ OthersUnchanged({self, target})
    ]_vars

\* a transfer from Alice to Bob has just succeeded, with Carol in the ledger
C2_Witness ==
    /\ last.op = "transfer" /\ last.raised = None /\ ~last.same
    /\ Cardinality(DOMAIN accounts) = 3
    /\ accounts["12345"].transactions # <<>>
    /\ Last(accounts["12345"].transactions)
         = <<"Sent Nu.", last.amount, " to ", "Bob", " (", "54321", ")">>
    /\ accounts["54321"].transactions # <<>>
    /\ Last(accounts["54321"].transactions)
         = <<"Received Nu.", last.amount, " from ", "Alice", " (", "12345", ")">>

\* C3: a transfer of any amount from an account to itself raises
\* InvalidAmountError and leaves every balance and history as it was.
C3_SelfTransferInvalidAmount ==
    [][\A self \in DOMAIN accounts, amount \in Amounts :
         (Called("transfer", amount) /\ Transfer(self, amount, self)) =>
            /\ last'.raised = "InvalidAmountError"
            /\ accounts' = accounts
    ]_vars

\* C4: with an amount <= 0, deposit, withdraw, mobile_topup and transfer (to
\* any target) raise InvalidAmountError and leave every account as it was.
C4_NonPositiveRejected ==
    [][\A self \in DOMAIN accounts, amount \in Amounts :
         amount <= 0 =>
            /\ (Called("deposit", amount) /\ Deposit(self, amount)) =>
                  last'.raised = "InvalidAmountError" /\ accounts' = accounts
            /\ (Called("withdraw", amount) /\ Withdraw(self, amount)) =>
                  last'.raised = "InvalidAmountError" /\ accounts' = accounts
            /\ \A number \in MobileNumbers :
                  (Called("mobile_topup", amount) /\ MobileTopup(self, amount, number)) =>
                  last'.raised = "InvalidAmountError" /\ accounts' = accounts
            /\ \A target \in DOMAIN accounts :
                  (Called("transfer", amount) /\ Transfer(self, amount, target)) =>
                  last'.raised = "InvalidAmountError" /\ accounts' = accounts
    ]_vars

\* a deposit of zero or less has just been refused, on a ledger that holds records
C4_Witness ==
    /\ last.op = "deposit" /\ last.amount <= 0
    /\ last.raised = "InvalidAmountError"
    /\ Records(accounts) > 0

\* C5: with an amount greater than the account's balance, withdraw,
\* mobile_topup and transfer (to any target, the account itself included) raise
\* InsufficientFundsError and leave every account, the target included, as it was.
C5_InsufficientRejected ==
    [][\A self \in DOMAIN accounts, amount \in Amounts :
         amount > accounts[self].balance =>
            /\ (Called("withdraw", amount) /\ Withdraw(self, amount)) =>
                  last'.raised = "InsufficientFundsError" /\ accounts' = accounts
            /\ \A number \in MobileNumbers :
                  (Called("mobile_topup", amount) /\ MobileTopup(self, amount, number)) =>
                  last'.raised = "InsufficientFundsError" /\ accounts' = accounts
            /\ \A target \in DOMAIN accounts :
                  (Called("transfer", amount) /\ Transfer(self, amount, target)) =>
                  last'.raised = "InsufficientFundsError" /\ accounts' = accounts
    ]_vars

\* a transfer to another account of more than any account holds has just been
\* refused, while some account holds money
C5_Witness ==
    /\ last.op = "transfer" /\ ~last.same
    /\ last.raised = "InsufficientFundsError"
    /\ \A n \in DOMAIN accounts : last.amount > accounts[n].balance
    /\ \E n \in DOMAIN accounts : accounts[n].balance > 0

\* the record a successful call leaves on the account n it was applied to
RecordOf(n, entry) ==
    CASE entry[1] = "deposit" -> <<"Deposited Nu.", entry[2]>>
      [] entry[1] = "withdraw" -> <<"Withdrew Nu.", entry[2]>>
      [] entry[1] = "mobile_topup" -> <<"Mobile top-up Nu.", entry[2], " to ", entry[3]>>
      [] entry[1] = "transfer to" ->
            <<"Sent Nu.", entry[2], " to ", accounts[entry[3]].name, " (", entry[3], ")">>
      [] entry[1] = "transfer from" ->
            <<"Received Nu.", entry[2], " from ", accounts[entry[3]].name,
              " (", entry[3], ")">>

\* the history of n holds one record per call applied to n, in the order of the calls
HistoryMatchesCalls ==
    \A n \in DOMAIN accounts :
       /\ Len(accounts[n].transactions) = Len(applied[n])
       /\ \A i \in 1 .. Len(applied[n]) :
             accounts[n].transactions[i] = RecordOf(n, applied[n][i])

\* C7: every step leaves each account's earlier history as a prefix of its new
\* history, and after N calls that succeeded on an account (failed calls adding
\* nothing) its history holds exactly N records, in the order of the calls.
C7_HistoryAppendOnly ==
    /\ HistoryMatchesCalls
    /\ [][/\ \A n \in DOMAIN accounts \cap DOMAIN accounts' :
               IsPrefix(accounts[n].transactions, accounts'[n].transactions)
          /\ HistoryMatchesCalls'
         ]_vars

\* an account holds two records, of a deposit and then a withdrawal, and a
\* failed call has been made since
C7_Witness ==
    /\ last.raised # None
    /\ \E n \in DOMAIN accounts :
          /\ Len(accounts[n].transactions) = 2
          /\ accounts[n].transactions[1][1] = "Deposited Nu."
          /\ accounts[n].transactions[2][1] = "Withdrew Nu."

\* C8: a deposit of an amount > 0 raises nothing, adds exactly the amount to the
\* account's balance, appends one record naming the amount as the last entry of
\* its history, and changes no other account.
C8_DepositAdds ==
    [][\A self \in DOMAIN accounts, amount \in Amounts :
         (amount > 0 /\ Called("deposit", amount) /\ Deposit(self, amount)) =>
            /\ last'.raised = None
            /\ accounts'[self].balance = accounts[self].balance + amount
            /\ Len(accounts'[self].transactions) = Len(accounts[self].transactions) + 1
            /\ IsPrefix(accounts[self].transactions, accounts'[self].transactions)
            /\ Last(accounts'[self].transactions) = <<"Deposited Nu.", amount>>
            /\ SameIdentity(self)
            /\ OthersUnchanged({self})
    ]_vars

\* a deposit has just succeeded on an account that already held a record
C8_Witness ==
    /\ last.op = "deposit" /\ last.raised = None /\ last.amount > 0
    /\ \E n \in DOMAIN accounts :
          /\ Len(accounts[n].transactions) = 2
          /\ Last(accounts[n].transactions) = <<"Deposited Nu.", last.amount>>
          /\ accounts[n].balance >= last.amount

\* C9: withdraw and mobile_topup with 0 < amount <= balance (amount = balance
\* included) raise nothing, take exactly the amount from the invoking account,
\* append one record to its history, and change no other account.
C9_DebitOnlySelf ==
    [][\A self \in DOMAIN accounts, amount \in Amounts :
         (0 < amount /\ amount <= accounts[self].balance) =>
            /\ (Called("withdraw", amount) /\ Withdraw(self, amount)) =>
                  /\ last'.raised = None
                  /\ accounts'[self].balance = accounts[self].balance - amount
                  /\ accounts'[self].transactions =
                       Append(accounts[self].transactions, <<"Withdrew Nu.", amount>>)
                  /\ SameIdentity(self)
                  /\ OthersUnchanged({self})
            /\ \A number \in MobileNumbers :
                  (Called("mobile_topup", amount) /\ MobileTopup(self, amount, number)) =>
                  /\ last'.raised = None
                  /\ accounts'[self].balance = accounts[self].balance - amount
                  /\ accounts'[self].transactions =
                       Append(accounts[self].transactions,
                              <<"Mobile top-up Nu.", amount, " to ", number>>)
                  /\ SameIdentity(self)
                  /\ OthersUnchanged({self})
    ]_vars

\* a withdrawal of an account's whole balance has just succeeded
C9_Witness ==
    /\ last.op = "withdraw" /\ last.raised = None /\ last.amount > 0
    /\ \E n \in DOMAIN accounts :
          /\ accounts[n].balance = 0
          /\ accounts[n].transactions # <<>>
          /\ Last(accounts[n].transactions) = <<"Withdrew Nu.", last.amount>>

---------------------------------------------------------------------------
(* Properties of BankingApp (AppSpec) *)

\* C1: in every state reached by opening accounts, depositing, withdrawing,
\* sending money, topping up and closing accounts, every account of the ledger
\* has a balance >= 0.
C1_BalanceNonNegative ==
    \A n \in DOMAIN accounts : accounts[n].balance >= 0

\* after an account was closed and a withdrawal has emptied the other, which
\* had received money
C1_Witness ==
    /\ last.op = "BankingApp.withdraw" /\ last.raised = None
    /\ Cardinality(DOMAIN accounts) = 1
    /\ \E n \in DOMAIN accounts :
          /\ accounts[n].balance = 0
          /\ Len(accounts[n].transactions) = 2
          /\ accounts[n].transactions[1][1] = "Received Nu."

---------------------------------------------------------------------------
(* Properties of concurrent callers (ConcSpec) *)

\* caller t has debited the source of its transfer and has not yet finished
\* crediting the target and appending both records
MidTransfer(t) ==
    /\ thr[t].op = "transfer"
    /\ thr[t].pc \in {"debited", "read target", "credited", "sent"}

\* the next step of caller u reads or writes the balance or the history of n
Touches(u, n) ==
    \/ /\ thr[u].self = n
       /\ \/ thr[u].pc \in {"entered", "read"}
          \/ thr[u].pc = "written"
          \/ thr[u].pc = "tested" /\ thr[u].op = "withdraw"
          \/ thr[u].pc = "checked"
          \/ thr[u].pc = "debited" /\ thr[u].op = "withdraw"
          \/ thr[u].pc = "credited"
    \/ /\ thr[u].target = n
       /\ thr[u].op = "transfer"
       /\ thr[u].pc \in {"debited", "read target", "sent"}

\* C6: while a transfer has debited its source and not yet finished, no other
\* caller is at a step that reads or writes either account of the transfer: the
\* half-applied transfer is never observable.
C6_TransferAtomic ==
    \A t \in Callers, u \in Callers :
       (t # u /\ MidTransfer(t)) =>
          ~(Touches(u, thr[t].self) \/ Touches(u, thr[t].target))

\* what the call of caller t, if it returned without raising, adds to balance n
Effect(t, n) ==
    IF thr[t].pc # "done" \/ thr[t].raised # None THEN 0
    ELSE IF thr[t].op = "deposit" /\ thr[t].self = n THEN thr[t].amount
    ELSE IF thr[t].op = "withdraw" /\ thr[t].self = n THEN 0 - thr[t].amount
    ELSE IF thr[t].op = "transfer" /\ thr[t].self = n THEN 0 - thr[t].amount
    ELSE IF thr[t].op = "transfer" /\ thr[t].target = n THEN thr[t].amount
    ELSE 0

\* the number of records that call leaves on account n
Recorded(t, n) ==
    IF thr[t].pc # "done" \/ thr[t].raised # None THEN 0
    ELSE IF thr[t].op \in {"deposit", "withdraw"} /\ thr[t].self = n THEN 1
    ELSE IF thr[t].op = "transfer" /\ n \in {thr[t].self, thr[t].target} THEN 1
    ELSE 0

\* C10: balances never go negative, and once both callers have returned, every
\* balance is the opening balance (1) plus the effects of the calls that
\* succeeded (the result of running them one after the other), and every
\* history holds one record per successful call.
C10_CallsSerialize ==
    /\ \A n \in DOMAIN accounts : accounts[n].balance >= 0
    /\ (\A t \in Callers : thr[t].pc = "done") =>
          \A n \in DOMAIN accounts :
             /\ accounts[n].balance = 1 + Effect("t1", n) + Effect("t2", n)
             /\ Len(accounts[n].transactions) = Recorded("t1", n) + Recorded("t2", n)

---------------------------------------------------------------------------
(* Properties of reading the history (Spec) *)

\* C15: get_transactions on an account of the ledger raises nothing, returns
\* that account's records, oldest first as they were appended, and leaves every
\* balance, every history and the set of accounts as they were.
C15_GetTransactionsPure ==
    [][\A self \in DOMAIN accounts :
         (last'.op = "get_transactions" /\ GetTransactions(self)) =>
            /\ last'.raised = None
            /\ last'.returned = accounts[self].transactions
            /\ accounts' = accounts]_vars

\* a deposit and then a withdrawal were read back in that order
C15_Witness ==
    /\ last.op = "get_transactions"
    /\ Len(last.returned) = 2
    /\ last.returned[1][1] = "Deposited Nu."
    /\ last.returned[2][1] = "Withdrew Nu."
    /\ \E n \in DOMAIN accounts : accounts[n].transactions = last.returned

---------------------------------------------------------------------------
(* Properties of the account set (LedgerSpec) *)

\* C11: making an account with an opening balance below 0 raises
\* InvalidAmountError and adds no account to the ledger; making one with an
\* opening balance of 0 or more adds exactly one account, under a number not in
\* use, with that balance and an empty history.
C11_NegativeOpeningRejected ==
    [][thr # NoRequest =>
         /\ thr.balance < 0 =>
               /\ DOMAIN accounts' = DOMAIN accounts
               /\ thr' = NoRequest => last'.raised = "InvalidAmountError"
         /\ (thr.balance >= 0 /\ thr' = NoRequest) =>
               \E acc_num \in AccNums \ DOMAIN accounts :
                  /\ DOMAIN accounts' = DOMAIN accounts \cup {acc_num}
                  /\ accounts'[acc_num].balance = thr.balance
                  /\ accounts'[acc_num].transactions = <<>>
                  /\ \A n \in DOMAIN accounts : accounts'[n] = accounts[n]]_vars

\* C14: a call that makes an account returns: while generate_account_number is
\* looping, at least one of the numbers it draws from is not in use, so that a
\* turn of the loop can end it.
C14_AllocationReturns ==
    thr # NoRequest => AccNums \ DOMAIN accounts # {}

---------------------------------------------------------------------------
(* Further properties of BankingApp (AppSpec) *)

\* the account numbers that the records of the accounts in the ledger name
Counterparties ==
    UNION {{accounts[n].transactions[i][6] :
               i \in {j \in 1 .. Len(accounts[n].transactions) :
                         Len(accounts[n].transactions[j]) = 7}} :
           n \in DOMAIN accounts}

C13_IdentifiersUnique ==
    /\ [](/\ \A k \in DOMAIN accounts : accounts[k].account_number = k
          /\ \A k1, k2 \in DOMAIN accounts :
                accounts[k1].account_number = accounts[k2].account_number => k1 = k2)
    /\ [][(/\ last'.op = "open_account" /\ last'.raised = None
            /\ \E name \in NameInputs, passcode \in OpenPasscodes, bal \in OpenBalances :
                  open_account(name, passcode, bal, FALSE)) =>
             \E acc_num \in AccNums \ DOMAIN accounts :
                /\ DOMAIN accounts' = DOMAIN accounts \cup {acc_num}
                /\ accounts'[acc_num].account_number = acc_num
                /\ \A n \in DOMAIN accounts : accounts'[n] = accounts[n]]_vars

\* a second account has just been opened next to one that has a history
C13_Witness ==
    /\ last.op = "open_account" /\ last.raised = None
    /\ Cardinality(DOMAIN accounts) = 2
    /\ \E n \in DOMAIN accounts : accounts[n].transactions # <<>>

\* C16: in every step of the application (a deposit, a withdrawal, a transfer,
\* a top-up, a login, a logout, the opening or the closing of an account), every
\* account that is in the ledger before and after the step keeps its
\* account_number, its name and its passcode.
C16_IdentityFixed ==
    [][\A n \in DOMAIN accounts \cap DOMAIN accounts' : SameIdentity(n)]_vars

\* an account that received money from another, which was then closed, and
\* whose owner has logged out
C16_Witness ==
    /\ last.op = "logout"
    /\ Counterparties \ DOMAIN accounts # {}
    /\ \E n \in DOMAIN accounts :
          /\ accounts[n].transactions # <<>>
          /\ Last(accounts[n].transactions)[1] = "Received Nu."
          /\ accounts[n].passcode = GoodPasscode

\* the handlers behind the five buttons that a login enables
MutatingHandlers ==
    {"BankingApp.deposit", "BankingApp.withdraw", "BankingApp.transfer",
     "BankingApp.mobile_topup", "close_account"}

\* C17: in every state of the application the current account is none or an
\* account of the ledger, stored under its own number; each of the five buttons
\* Deposit, Withdraw, Send Money, Mobile Top-Up and Close Account is enabled
\* exactly when there is a current account; and the handler of none of them
\* runs while there is no current account.
C17_SessionInvariant ==
    /\ [](/\ current # None =>
                /\ current \in DOMAIN accounts
                /\ accounts[current].account_number = current
          /\ \A b \in ButtonNames : buttons[b] = "normal" <=> current # None)
    /\ [][last'.op \in MutatingHandlers => current # None]_vars

\* after one account was closed, the owner of another has logged in and the
\* buttons are enabled
C17_Witness ==
    /\ last.op = "login" /\ last.raised = None
    /\ current \in DOMAIN accounts
    /\ buttons = Normal
    /\ Counterparties \ DOMAIN accounts # {}

\* C18: the current account becomes account A only in a login in which A's
\* number and A's passcode were typed; and a login in which a number that is not
\* in the ledger, or a passcode other than the account's, was typed reports a
\* failure and leaves the current account, the buttons and every account (its
\* balance and history) as they were.
C18_LoginAuthenticates ==
    [][/\ (current' # current /\ current' # None) =>
             /\ last'.op = "login" /\ last'.raised = None /\ last'.arg = current'
             /\ current' \in DOMAIN accounts
             /\ login(current', accounts[current'].passcode)
       /\ \A acc_num \in AccNumInputs, passcode \in PasscodeInputs :
             (/\ last'.op = "login"
              /\ acc_num \notin DOMAIN accounts \/ passcode # accounts[acc_num].passcode
              /\ login(acc_num, passcode)) =>
                /\ last'.raised # None
                /\ UNCHANGED <<current, buttons, accounts>>]_vars

\* while one owner is logged in, a login to the other account with a passcode
\* that is not that account's was answered "Incorrect passcode"
C18_Witness ==
    /\ last.op = "login" /\ last.raised = "Incorrect passcode"
    /\ current \in DOMAIN accounts
    /\ last.arg \in DOMAIN accounts \ {current}
    /\ buttons = Normal

\* the owner names of the accounts in the ledger
NamesInUse == {accounts[n].name : n \in DOMAIN accounts}

\* C19: in every state no two accounts of the ledger carry the same name;
\* open_account with the name of an account of the ledger answers "Account with
\* this name already exists" and leaves the accounts as they were; and
\* open_account with a name that no account of the ledger carries (that of a
\* closed account included) is not refused for its name and, when it succeeds,
\* adds an account of that name.
C19_NamesUnique ==
    /\ [](\A n1, n2 \in DOMAIN accounts :
             accounts[n1].name = accounts[n2].name => n1 = n2)
    /\ [][last'.op = "open_account" =>
             /\ last'.arg \in NamesInUse =>
                   /\ last'.raised = "Account with this name already exists"
                   /\ accounts' = accounts
             /\ last'.arg \in Names \ NamesInUse =>
                   /\ last'.raised # "Account with this name already exists"
                   /\ last'.raised = None =>
                         \E n \in DOMAIN accounts' \ DOMAIN accounts :
                            accounts'[n].name = last'.arg]_vars

\* an owner who once sent or received money closed the account and opened a new
\* one under the same name (its history is empty), and a further open_account
\* with that name was refused
C19_Witness ==
    /\ last.op = "open_account"
    /\ last.raised = "Account with this name already exists"
    /\ \E n, m \in DOMAIN accounts :
          /\ accounts[m].transactions = <<>>
          /\ \E i \in 1 .. Len(accounts[n].transactions) :
                /\ Len(accounts[n].transactions[i]) = 7
                /\ accounts[n].transactions[i][4] = accounts[m].name

=============================================================================
